---------------------------- MODULE Spec2Model ----------------------------
(***************************************************************************)
(* Model of BufferingBot.py: Message, MessageBuffer (a heapq of Messages   *)
(* ordered by timestamp, with a staleness purge) and BufferingBot's        *)
(* flood-control tick.                                                     *)
(*                                                                         *)
(* Time is counted in units of 1/70 second, so that the delay              *)
(* 0.5 + len/35 seconds of get_delay is the integer 35 + 2*len.            *)
(* A bytes value is a sequence of one-character strings.  The semantics    *)
(* is that of Python 3: Message.__init__ stores every argument as bytes,  *)
(* Message objects without __eq__ compare by identity, and                 *)
(* bytes.startswith(str) raises TypeError.                                 *)
(***************************************************************************)
EXTENDS Integers, Sequences, FiniteSets, TLC

VARIABLES
    heap,        \* MessageBuffer.heap: the heapq list of Message objects
    timeout,     \* MessageBuffer.timeout, in seconds
    last_tick,   \* BufferingBot.last_tick, in time units
    now,         \* the value time.time() returns, in time units
    channels,    \* BufferingBot.channels: the joined channels
    connected,   \* what connection.is_connected() returns
    nextId,      \* identity of the next Message object constructed
    last,        \* what the last operation did (observation only)
    hist         \* what the ticks did so far (observation only)

vars == <<heap, timeout, last_tick, now, channels, connected, nextId, last,
          hist>>

-----------------------------------------------------------------------------
(* Bounds of the model. *)

MaxMsgs == 2       \* Message objects the environment constructs
MaxNow == 770      \* the clock stops advancing here
MaxPush == 5       \* pushes of the push-only specification
MaxStamp == 2      \* largest timestamp given in the push-only specification
MaxTextLen == 360  \* longest text of the get_delay specification

(* Time units per second: the least scale at which 0.5 s and 1/35 s are whole. *)
TimeScale == 2 * 35

(* The clock advances by one of these amounts (5 s, 6 s): the instants    *)
(* reached are 0, 5, 6, 10 and 11 s.                                      *)
ClockSteps == {350, 420}

(* BufferingBot.__init__ builds MessageBuffer(10.0) *)
BotTimeout == 10

(* The timeouts a MessageBuffer used on its own is built with *)
Timeouts == {BotTimeout, -1}

-----------------------------------------------------------------------------
(* bytes values *)

Rep(c, n) == [i \in 1..n |-> c]

ChanA == <<"#", "a">>
ChanB == <<"#", "b">>
Nick == <<"b", "o", "b">>
Hi == <<"h", "i">>
Long == Rep("x", 35)
ModeArg == <<"+", "m">>

(* The channels the bot joins *)
Joinable == {ChanA}

(* Message(command, arguments, timestamp): the object's identity, its      *)
(* command, its arguments (each encoded to bytes) and its timestamp.       *)
Message(id, command, arguments, timestamp) ==
    [id |-> id, command |-> command, arguments |-> arguments,
     timestamp |-> timestamp]

(* Message.__lt__ *)
MsgLtLe(a, b) == a.timestamp <= b.timestamp
MsgLt(a, b) == a.timestamp < b.timestamp

-----------------------------------------------------------------------------
(* heapq on a 1-based sequence: the parent of position i is i \div 2, its  *)
(* children are 2i and 2i+1.                                               *)

RECURSIVE _siftdown(_, _, _, _)
_siftdown(h, startpos, pos, newitem) ==
    IF pos > startpos /\ MsgLt(newitem, h[pos \div 2])
    THEN _siftdown([h EXCEPT ![pos] = h[pos \div 2]], startpos, pos \div 2, newitem)
    ELSE [h EXCEPT ![pos] = newitem]

RECURSIVE _siftup_loop(_, _, _)
_siftup_loop(h, pos, newitem) ==
    LET endpos == Len(h)
        childpos == 2 * pos
        rightpos == childpos + 1
        c == IF rightpos <= endpos /\ ~MsgLt(h[childpos], h[rightpos])
             THEN rightpos ELSE childpos
    IN  IF childpos <= endpos
        THEN _siftup_loop([h EXCEPT ![pos] = h[c]], c, newitem)
        ELSE <<[h EXCEPT ![pos] = newitem], pos>>

SiftupEnd(r, startpos, newitem) == _siftdown(r[1], startpos, r[2], newitem)

_siftup(h, pos) == SiftupEnd(_siftup_loop(h, pos, h[pos]), pos, h[pos])

(* heapq.heappush(heap, item) *)
heappush(h, item) == _siftdown(Append(h, item), 1, Len(h) + 1, item)

(* heapq.heappop(heap) on a non-empty heap: the item returned and the heap left *)
heappop(h) ==
    LET lastelt == h[Len(h)]
        rest == SubSeq(h, 1, Len(h) - 1)
    IN  IF rest # <<>>
        THEN [item |-> h[1], heap |-> _siftup([rest EXCEPT ![1] = lastelt], 1)]
        ELSE [item |-> lastelt, heap |-> rest]

(* The last element of the list, not the root *)
peek_last(h) == h[Len(h)]

(* MessageBuffer.peek on a non-empty heap *)
peek(h) == h[1]

(* MessageBuffer.push *)
push(h, message) == heappush(h, message)


(* MessageBuffer._pop: the heap's least item, or None (<<>>) on an empty heap *)
Popped(r) == [item |-> <<r.item>>, heap |-> r.heap]

_pop(h) ==
    IF h = <<>>
    THEN [item |-> <<>>, heap |-> h]
    ELSE Popped(heappop(h))

-----------------------------------------------------------------------------
(* The synthetic notice of purge:                                          *)
(* "-- Message lags over %f seconds. Skipping %d line(s).."                *)

NoticeHead ==
    <<"-", "-", " ", "M", "e", "s", "s", "a", "g", "e", " ", "l", "a", "g",
      "s", " ", "o", "v", "e", "r", " ">>
NoticeMiddle ==
    <<" ", "s", "e", "c", "o", "n", "d", "s", ".", " ", "S", "k", "i", "p",
      "p", "i", "n", "g", " ">>
NoticeTail ==
    <<" ", "l", "i", "n", "e", "(", "s", ")", ".", ".">>
SixZeros ==
    <<".", "0", "0", "0", "0", "0", "0">>

DigitChars == <<"0", "1", "2", "3", "4", "5", "6", "7", "8", "9">>

(* "%d" of a natural number *)
RECURSIVE FormatNat(_)
FormatNat(n) ==
    IF n < 10 THEN <<DigitChars[n + 1]>>
    ELSE FormatNat(n \div 10) \o <<DigitChars[(n % 10) + 1]>>

(* "%d" of an integer *)
FormatInt(n) == IF n < 0 THEN <<"-">> \o FormatNat(-n) ELSE FormatNat(n)

(* "%f" of a timeout of a whole number of seconds: six decimals *)
FormatFloat(secs) == FormatInt(secs) \o SixZeros

NoticeText(tmo, line_count) ==
    NoticeHead \o FormatFloat(tmo) \o NoticeMiddle \o FormatInt(line_count)
        \o NoticeTail

-----------------------------------------------------------------------------
(* MessageBuffer.is_system_message(message): message.startswith('--').     *)
(* The argument is a bytes object (Message.__init__ encodes every argument) *)
(* and '--' is a str: bytes.startswith raises TypeError, whatever the text. *)
is_system_message_never(message) == [exc |-> "none", value |-> FALSE]

is_system_message(message) == [exc |-> "TypeError", value |-> FALSE]

(* line_counts[target] += 1 on a defaultdict(int), kept in insertion order *)
CountLine(line_counts, target) ==
    IF \E i \in 1..Len(line_counts) : line_counts[i].target = target
    THEN [i \in 1..Len(line_counts) |->
            IF line_counts[i].target = target
            THEN [line_counts[i] EXCEPT !.count = @ + 1]
            ELSE line_counts[i]]
    ELSE Append(line_counts, [target |-> target, count |-> 1])

(* The while loop of purge.  exit is "done" when the loop ends (empty heap  *)
(* or break), "return" at the return of the except branch, "TypeError" when *)
(* is_system_message raises.  removed lists the messages popped and not    *)
(* pushed back.                                                            *)
RECURSIVE PurgeLoop(_, _, _, _)

(* One iteration of the loop: message is the head that peek() returned and *)
(* h1 the heap that _pop() leaves.                                         *)
PurgeStep(h, message, h1, stale, line_counts, removed) ==
    IF message.timestamp > stale \/ message.command \in {"join"}
    THEN [heap |-> h, line_counts |-> line_counts, removed |-> removed,
          exit |-> "done"]
    ELSE IF message.command \in {"privmsg", "privnotice"}
    THEN IF Len(message.arguments) # 2
         THEN [heap |-> push(h1, message), line_counts |-> line_counts,
               removed |-> removed, exit |-> "return"]
         ELSE IF is_system_message(message.arguments[2]).exc # "none"
         THEN [heap |-> h1, line_counts |-> line_counts,
               removed |-> Append(removed, message),
               exit |-> is_system_message(message.arguments[2]).exc]
         ELSE PurgeLoop(h1, stale,
                  IF ~is_system_message(message.arguments[2]).value
                  THEN CountLine(line_counts, message.arguments[1])
                  ELSE line_counts,
                  Append(removed, message))
    ELSE PurgeLoop(h1, stale, line_counts, Append(removed, message))

PurgeLoop(h, stale, line_counts, removed) ==
    IF h = <<>>
    THEN [heap |-> h, line_counts |-> line_counts, removed |-> removed,
          exit |-> "done"]
    ELSE PurgeStep(h, peek(h), _pop(h).heap, stale, line_counts, removed)

(* The for loop of purge: one new Message per counted target, pushed *)
RECURSIVE PushNotices(_, _, _, _, _)
PushNotices(h, line_counts, tmo, t, nid) ==
    IF line_counts = <<>> THEN h
    ELSE PushNotices(
             push(h, Message(nid, "privmsg",
                             <<line_counts[1].target,
                               NoticeText(tmo, line_counts[1].count)>>, t)),
             Tail(line_counts), tmo, t, nid + 1)

(* What purge leaves once its while loop ended in loop *)
PurgeEnd(loop, tmo, t, nid) ==
    IF loop.exit = "done"
    THEN [heap |-> PushNotices(loop.heap, loop.line_counts, tmo, t, nid),
          exc |-> "none", removed |-> loop.removed,
          nextId |-> nid + Len(loop.line_counts)]
    ELSE [heap |-> loop.heap,
          exc |-> IF loop.exit = "return" THEN "none" ELSE loop.exit,
          removed |-> loop.removed, nextId |-> nid]

(* MessageBuffer.purge at time t: the heap left, the exception raised      *)
(* ("none" when it returns), the messages removed, the next object id.     *)
purge(h, tmo, t, nid) ==
    PurgeEnd(PurgeLoop(h, t - tmo * TimeScale, <<>>, <<>>), tmo, t, nid)

(* return self._pop(), after a purge that ended in p (or no purge) *)
PopEnd(p) ==
    IF p.exc # "none"
    THEN [item |-> <<>>, heap |-> p.heap, exc |-> p.exc,
          removed |-> p.removed, nextId |-> p.nextId]
    ELSE [item |-> _pop(p.heap).item, heap |-> _pop(p.heap).heap,
          exc |-> "none", removed |-> p.removed, nextId |-> p.nextId]

(* MessageBuffer.pop at time t.  peek() of an empty heap raises IndexError. *)
pop(h, tmo, t, nid) ==
    IF h = <<>>
    THEN [item |-> <<>>, heap |-> h, exc |-> "IndexError", removed |-> <<>>,
          nextId |-> nid]
    ELSE IF peek(h).timestamp < t - tmo * TimeScale
    THEN PopEnd(purge(h, tmo, t, nid))
    ELSE PopEnd([heap |-> h, exc |-> "none", removed |-> <<>>, nextId |-> nid])

-----------------------------------------------------------------------------
(* BufferingBot.get_delay, in time units (seconds * TimeScale):            *)
(* 0 unless the command is privmsg; 2 s for a privmsg whose arguments do   *)
(* not unpack into two; else 0.5 + len(msg)/35 s; never more than 4 s.     *)
get_delay_nocap(message) ==
    IF message.command = "privmsg"
    THEN IF Len(message.arguments) = 2
         THEN TimeScale \div 2 + Len(message.arguments[2]) * (TimeScale \div 35)
         ELSE 2 * TimeScale
    ELSE 0

get_delay(message) ==
    LET delay == IF message.command = "privmsg"
                 THEN IF Len(message.arguments) = 2
                      THEN TimeScale \div 2
                           + Len(message.arguments[2]) * (TimeScale \div 35)
                      ELSE 2 * TimeScale
                 ELSE 0
    IN  IF delay > 4 * TimeScale THEN 4 * TimeScale ELSE delay

(* irclib.is_channel(target): the first character is one of "#&+!" *)
is_channel(target) == target # <<>> /\ target[1] \in {"#", "&", "+", "!"}

(* The commands process_message has a branch for *)
Supported ==
    {"join", "mode", "privmsg", "privnotice", "topic", "who", "whois"}

(* What the connection method does when it is called *)
Outcomes == {"ok", "ServerNotConnectedError", "Exception"}

(* BufferingBot.process_message: the messages handed to the connection,    *)
(* what the connection method raised, whether push_message(message) ran,   *)
(* whether _connect() ran, and the value returned: no branch has a return  *)
(* statement and both except clauses swallow the exception.                *)
process_message_retry(message, outcome) ==
    IF message.command \notin Supported
    THEN [sent |-> <<>>, raised |-> "none", requeue |-> FALSE,
          reconnect |-> FALSE, returned |-> "None"]
    ELSE [sent |-> IF outcome = "ok" THEN <<message>> ELSE <<message, message>>,
          raised |-> IF outcome = "ok" THEN "none" ELSE outcome,
          requeue |-> FALSE, reconnect |-> outcome = "ServerNotConnectedError",
          returned |-> "None"]

process_message(message, outcome) ==
    IF message.command \notin Supported
    THEN [sent |-> <<>>, raised |-> "none", requeue |-> FALSE,
          reconnect |-> FALSE, returned |-> "None"]
    ELSE [sent |-> <<message>>,
          raised |-> IF outcome = "ok" THEN "none" ELSE outcome,
          requeue |-> outcome # "ok",
          reconnect |-> outcome = "ServerNotConnectedError",
          returned |-> "None"]

(* The test of pop_buffer on a privmsg head: the arguments do not unpack   *)
(* (the except branch returns), or the target is a channel not joined.     *)
GatedJoined(message, chans) ==
    /\ message.command = "privmsg"
    /\ \/ Len(message.arguments) # 2
       \/ /\ is_channel(message.arguments[1])
          /\ message.arguments[1] \in chans

Gated(message, chans) ==
    /\ message.command = "privmsg"
    /\ \/ Len(message.arguments) # 2
       \/ /\ is_channel(message.arguments[1])
          /\ message.arguments[1] \notin chans

(* A tick that returns before dispatching *)
Idle(h, lt, nid) ==
    [heap |-> h, last_tick |-> lt, nextId |-> nid, tried |-> <<>>,
     sent |-> <<>>, raised |-> "none", requeued |-> FALSE,
     returned |-> <<>>, exc |-> "none", reconnect |-> FALSE,
     removed |-> <<>>, ret |-> <<>>]

(* The end of pop_buffer: process_message(message) did pm, then           *)
(* buffer.pop() did p; the identity test, then last_tick = tick.           *)
PopBufferEnd(message, lt, t, pm, p) ==
    [heap |-> p.heap,
     last_tick |-> IF p.exc = "none" /\ p.item # <<>>
                      /\ p.item[1].id = message.id
                   THEN t ELSE lt,
     nextId |-> p.nextId,
     tried |-> <<message>>,
     sent |-> pm.sent,
     raised |-> pm.raised,
     requeued |-> pm.requeue,
     returned |-> <<pm.returned>>,
     exc |-> IF p.exc # "none" THEN p.exc
             ELSE IF p.item = <<>> \/ p.item[1].id # message.id
             THEN "AssertionError" ELSE "none",
     reconnect |-> pm.reconnect,
     removed |-> p.removed,
     ret |-> p.item]

(* process_message(message) then buffer.pop() *)
Dispatch(h, message, lt, t, tmo, nid, pm) ==
    PopBufferEnd(message, lt, t, pm,
                 pop(IF pm.requeue THEN push(h, message) ELSE h, tmo, t, nid))

(* BufferingBot.pop_buffer at time t, the connection method ending in      *)
(* outcome: the new heap, last_tick and next object id, the message given  *)
(* to process_message, the messages handed to the connection, what the     *)
(* connection method raised, whether the message was pushed back, what     *)
(* process_message returned, the exception that leaves pop_buffer, whether *)
(* _connect() ran, what the purge inside pop removed, what pop returned.   *)
pop_buffer(h, lt, t, tmo, chans, nid, outcome) ==
    IF h = <<>> THEN Idle(h, lt, nid)
    ELSE IF Gated(peek(h), chans) THEN Idle(h, lt, nid)
    ELSE IF lt + get_delay(peek(h)) > t THEN Idle(h, lt, nid)
    ELSE Dispatch(h, peek(h), lt, t, tmo, nid,
                  process_message(peek(h), outcome))

(* BufferingBot.flood_control *)
flood_control(h, lt, t, tmo, chans, nid, conn, outcome) ==
    IF ~conn
    THEN [Idle(h, lt, nid) EXCEPT !.reconnect = TRUE]
    ELSE pop_buffer(h, lt, t, tmo, chans, nid, outcome)

(* BufferingBot.on_tick, the body the periodic decorator wraps *)
on_tick(h, lt, t, tmo, chans, nid, conn, outcome) ==
    IF ~conn
    THEN Idle(h, lt, nid)
    ELSE flood_control(h, lt, t, tmo, chans, nid, conn, outcome)

-----------------------------------------------------------------------------
(* The state machine.  An operation runs at one instant: every call of     *)
(* time.time() inside it returns now.                                      *)

(* The (command, arguments) pairs the environment builds Messages from *)
Templates ==
    { <<"join", <<ChanA>> >>,
      <<"mode", <<ChanA, ModeArg>> >>,
      <<"privmsg", <<ChanA, Hi>> >>,
      <<"privmsg", <<Nick, Long>> >>,
      <<"privmsg", <<ChanA>> >>,
      <<"privnotice", <<ChanB, Hi>> >>,
      <<"ping", <<>> >> }

Quiet == [op |-> "none", tried |-> <<>>, sent |-> <<>>, raised |-> "none",
          requeued |-> FALSE, returned |-> <<>>, exc |-> "none",
          reconnect |-> FALSE, removed |-> <<>>, ret |-> <<>>, delay |-> 0,
          again |-> FALSE]

Observed(op, r) ==
    [op |-> op, tried |-> r.tried, sent |-> r.sent, raised |-> r.raised,
     requeued |-> r.requeued, returned |-> r.returned, exc |-> r.exc,
     reconnect |-> r.reconnect, removed |-> r.removed, ret |-> r.ret,
     delay |-> 0, again |-> FALSE]

(* The operations that are ticks *)
Ticks == {"on_tick", "flood_control"}

(* The places in removed of the lines that purge added to line_counts:    *)
(* the privmsg/privnotice lines that unpacked and were no system message,  *)
(* once the loop has ended and the notices were made.                      *)
CountedLines(removed, notices) ==
    IF notices
    THEN {i \in 1..Len(removed) :
            /\ removed[i].command \in {"privmsg", "privnotice"}
            /\ Len(removed[i].arguments) = 2
            /\ ~is_system_message(removed[i].arguments[2]).value}
    ELSE {}

(* Observation of the ticks: when a message was last handed to the         *)
(* connection (-1: never), which messages a tick left in the queue         *)
(* because pop_buffer returned at its privmsg test, and, of the messages   *)
(* still queued, those a connection method took without raising and those *)
(* a purge counted.                                                        *)
NoHist == [sent_at |-> -1, gated |-> {}, sent_ok |-> {}, counted |-> {}]

TickHist(r) ==
    [sent_at |-> IF r.sent # <<>> THEN now ELSE hist.sent_at,
     gated |-> IF connected /\ heap # <<>> /\ Gated(peek(heap), channels)
               THEN hist.gated \cup {peek(heap).id} ELSE hist.gated,
     sent_ok |-> {id \in hist.sent_ok
                        \cup {r.sent[k].id : k \in
                                 IF r.raised = "none" THEN 1..Len(r.sent) ELSE {}} :
                    \E i \in 1..Len(r.heap) : r.heap[i].id = id},
     counted |-> {id \in hist.counted
                        \cup {r.removed[k].id : k \in
                                 CountedLines(r.removed, r.nextId > nextId)} :
                    \E i \in 1..Len(r.heap) : r.heap[i].id = id}]

(* BufferingBot.__init__: an empty MessageBuffer(10.0), last_tick = 0; the *)
(* connection is not yet established and no channel is joined.             *)
Init ==
    /\ heap = <<>>
    /\ timeout = BotTimeout
    /\ last_tick = 0
    /\ now = 0
    /\ channels = {}
    /\ connected = FALSE
    /\ nextId = 1
    /\ last = Quiet
    /\ hist = NoHist

(* push_message(Message(command, arguments)): the timestamp is time.time() *)
PushMessage ==
    /\ nextId <= MaxMsgs
    /\ \E tpl \in Templates :
           heap' = push(heap, Message(nextId, tpl[1], tpl[2], now))
    /\ nextId' = nextId + 1
    /\ last' = Quiet
    /\ UNCHANGED <<timeout, last_tick, now, channels, connected, hist>>

(* push_message(Message('mode', arguments, timestamp=0)): a message with  *)
(* a timestamp that the caller gives, older than the queued ones           *)
PushBackdated ==
    /\ nextId <= MaxMsgs
    /\ now > 0
    /\ heap' = push(heap, Message(nextId, "mode", <<ChanA, ModeArg>>, 0))
    /\ nextId' = nextId + 1
    /\ last' = Quiet
    /\ UNCHANGED <<timeout, last_tick, now, channels, connected, hist>>

(* time passes *)
AdvanceClock ==
    /\ \E d \in ClockSteps : now + d <= MaxNow /\ now' = now + d
    /\ last' = Quiet
    /\ UNCHANGED <<heap, timeout, last_tick, channels, connected, nextId, hist>>

(* the connection layer records that a channel was joined or left *)
JoinChannel ==
    /\ \E c \in Joinable : c \notin channels /\ channels' = channels \cup {c}
    /\ last' = Quiet
    /\ UNCHANGED <<heap, timeout, last_tick, now, connected, nextId, hist>>

PartChannel ==
    /\ \E c \in channels : channels' = channels \ {c}
    /\ last' = Quiet
    /\ UNCHANGED <<heap, timeout, last_tick, now, connected, nextId, hist>>

(* the connection comes up or goes down *)
ServerConnects ==
    /\ ~connected
    /\ connected' = TRUE
    /\ last' = Quiet
    /\ UNCHANGED <<heap, timeout, last_tick, now, channels, nextId, hist>>

ServerDrops ==
    /\ connected
    /\ connected' = FALSE
    /\ last' = Quiet
    /\ UNCHANGED <<heap, timeout, last_tick, now, channels, nextId, hist>>

(* The state after a direct call on the buffer that did p; again tells    *)
(* that the call is a purge() that directly follows a purge().             *)
BufferCall(op, p, ret) ==
    /\ heap' = p.heap
    /\ nextId' = p.nextId
    /\ last' = [Quiet EXCEPT !.op = op, !.exc = p.exc, !.removed = p.removed,
                             !.ret = ret,
                             !.again = (op = "purge" /\ last.op = "purge")]
    /\ UNCHANGED <<timeout, last_tick, now, channels, connected, hist>>

(* a direct call of buffer.purge() *)
Purge == BufferCall("purge", purge(heap, timeout, now, nextId), <<>>)

(* a direct call of buffer.pop() *)
Pop ==
    BufferCall("pop", pop(heap, timeout, now, nextId),
               pop(heap, timeout, now, nextId).item)

(* a direct call of buffer.peek(): heap[0] of an empty list raises *)
Peek ==
    BufferCall("peek",
               [heap |-> heap, nextId |-> nextId, removed |-> <<>>,
                exc |-> IF heap = <<>> THEN "IndexError" ELSE "none"],
               IF heap = <<>> THEN <<>> ELSE <<peek(heap)>>)

(* buffer.push of a privmsg whose text is a skip notice, as purge builds   *)
(* them (it starts with "--")                                              *)
PushMarked ==
    /\ nextId <= MaxMsgs
    /\ heap' = push(heap, Message(nextId, "privmsg",
                                  <<ChanA, NoticeText(timeout, 1)>>, now))
    /\ nextId' = nextId + 1
    /\ last' = Quiet
    /\ UNCHANGED <<timeout, last_tick, now, channels, connected, hist>>

(* The state after a tick that did r *)
TickCall(op, r) ==
    /\ heap' = r.heap
    /\ last_tick' = r.last_tick
    /\ nextId' = r.nextId
    /\ last' = Observed(op, r)
    /\ hist' = TickHist(r)
    /\ UNCHANGED <<timeout, now, channels, connected>>

(* the periodic callback on_tick *)
OnTick ==
    \E outcome \in Outcomes :
        TickCall("on_tick",
                 on_tick(heap, last_tick, now, timeout, channels, nextId,
                         connected, outcome))

(* a direct (passive-mode) call of flood_control *)
FloodControl ==
    \E outcome \in Outcomes :
        TickCall("flood_control",
                 flood_control(heap, last_tick, now, timeout, channels, nextId,
                               connected, outcome))

(* The bot: the queue is changed by pushes and by ticks only. *)
Next ==
    \/ PushMessage
    \/ PushBackdated
    \/ AdvanceClock
    \/ JoinChannel
    \/ PartChannel
    \/ ServerConnects
    \/ ServerDrops
    \/ OnTick
    \/ FloodControl

Spec == Init /\ [][Next]_vars

(* A MessageBuffer used on its own: MessageBuffer(timeout), then push,     *)
(* purge and pop at any time.                                              *)
InitBuffer ==
    /\ heap = <<>>
    /\ timeout \in Timeouts
    /\ last_tick = 0
    /\ now = 0
    /\ channels = {}
    /\ connected = FALSE
    /\ nextId = 1
    /\ last = Quiet
    /\ hist = NoHist

NextBuffer ==
    \/ PushMessage
    \/ AdvanceClock
    \/ Purge
    \/ Pop
    \/ Peek
    \/ PushMarked

SpecBuffer == InitBuffer /\ [][NextBuffer]_vars

(* buffer.push(Message(command, arguments, timestamp)) with a timestamp    *)
(* the caller gives                                                        *)
PushAt ==
    /\ nextId <= MaxPush
    /\ \E ts \in 0..MaxStamp :
           heap' = push(heap, Message(nextId, "privmsg", <<Nick, Hi>>, ts))
    /\ nextId' = nextId + 1
    /\ last' = Quiet
    /\ UNCHANGED <<timeout, last_tick, now, channels, connected, hist>>

(* Pushes only, on an initially empty queue *)
NextPush == PushAt

SpecPush == InitBuffer /\ [][NextPush]_vars

(* The bot's buffer, MessageBuffer(10.0), used as a queue: pushes with     *)
(* timestamps the caller gives, interleaved with peek and pop              *)
InitQueue ==
    /\ InitBuffer
    /\ timeout = BotTimeout

NextQueue ==
    \/ PushAt
    \/ Peek
    \/ Pop

SpecQueue == InitQueue /\ [][NextQueue]_vars


(* get_delay on its own: a Message of any command whose text has any       *)
(* length up to MaxTextLen, or a privmsg with one argument only.           *)
DelayCommands == {"privmsg", "privnotice", "join"}

InitDelay ==
    /\ \E c \in DelayCommands, n \in 0..MaxTextLen :
          heap \in { <<Message(1, c, <<Nick, Rep("x", n)>>, 0)>>,
                     <<Message(1, c, <<Rep("x", n)>>, 0)>> }
    /\ timeout = BotTimeout
    /\ last_tick = 0
    /\ now = 0
    /\ channels = {}
    /\ connected = FALSE
    /\ nextId = 2
    /\ last = Quiet
    /\ hist = NoHist

GetDelay ==
    /\ last.op = "none"
    /\ last' = [Quiet EXCEPT !.op = "get_delay", !.delay = get_delay(peek(heap))]
    /\ UNCHANGED <<heap, timeout, last_tick, now, channels, connected, nextId,
                   hist>>

NextDelay == GetDelay

SpecDelay == InitDelay /\ [][NextDelay]_vars

-----------------------------------------------------------------------------
(* Vocabulary of the properties *)

Range(h) == {h[i] : i \in 1..Len(h)}

Ids(h) == {h[i].id : i \in 1..Len(h)}

AllTargets == {ChanA, ChanB, Nick}

(* The text starts with the marker "--" *)
StartsWithMarker(text) == Len(text) >= 2 /\ text[1] = "-" /\ text[2] = "-"

(* m is a privmsg or privnotice to target T that is no system message *)
IsUserLine(m, T) ==
    /\ m.command \in {"privmsg", "privnotice"}
    /\ Len(m.arguments) = 2
    /\ m.arguments[1] = T
    /\ ~StartsWithMarker(m.arguments[2])

(* In a step: the user lines to T that left the queue, and the privmsgs to *)
(* T that are new in it.                                                   *)
SkipCount(T) ==
    Cardinality({i \in 1..Len(heap) :
                    IsUserLine(heap[i], T) /\ heap[i].id \notin Ids(heap')})

NewNotices(T) ==
    {i \in 1..Len(heap') :
        /\ heap'[i].id \notin Ids(heap)
        /\ heap'[i].command = "privmsg"
        /\ Len(heap'[i].arguments) = 2
        /\ heap'[i].arguments[1] = T}

(* m is a well-formed privmsg to a channel *)
ChannelPrivmsg(m) ==
    /\ m.command = "privmsg"
    /\ Len(m.arguments) = 2
    /\ is_channel(m.arguments[1])

-----------------------------------------------------------------------------
(* C1: in every tick that reaches dispatch, the message buffer.pop()       *)
(* returns is the very message that was peeked and handed to               *)
(* process_message, so the identity check never fails (no AssertionError). *)
C1_PopReturnsPeeked ==
    (last.op \in Ticks /\ last.tried # <<>> /\ last.exc # "TypeError")
        => (last.ret = last.tried /\ last.exc = "none")

(* C2: a purge() that removes k >= 1 non-system privmsg/privnotice lines   *)
(* addressed to T leaves exactly one new privmsg to T, whose text reports  *)
(* the count k; a target with k = 0 gets no notice.                        *)
C2_OneNoticePerTarget ==
    [][last'.op = "purge" =>
         \A T \in AllTargets :
            IF SkipCount(T) >= 1
            THEN /\ Cardinality(NewNotices(T)) = 1
                 /\ \A i \in NewNotices(T) :
                       heap'[i].arguments[2] = NoticeText(timeout, SkipCount(T))
            ELSE NewNotices(T) = {}]_vars

(* The scenario of C3: timeout 10, a stale privmsg(#a, "hi") at the head   *)
(* and join(#a) behind it.                                                 *)
C3_Scenario ==
    /\ timeout = 10
    /\ Len(heap) = 2
    /\ heap[1].command = "privmsg"
    /\ heap[1].arguments = <<ChanA, Hi>>
    /\ heap[1].timestamp < now - 10 * TimeScale
    /\ heap[2].command = "join"
    /\ heap[2].arguments = <<ChanA>>

(* A purge() step keeps every join message of the queue. *)
JoinsKept ==
    [][last'.op = "purge" =>
         \A i \in 1..Len(heap) :
            heap[i].command = "join" => heap[i] \in Range(heap')]_vars

(* C3: purge() never removes a join message, however old; and with         *)
(* timeout 10, privmsg(#a, "hi") stale at the head and join(#a) behind it, *)
(* purge removes the privmsg, keeps the join and leaves one skip notice    *)
(* with count 1 for #a.                                                    *)
C3_JoinKeptAndNotice ==
    [][last'.op = "purge" =>
         /\ \A i \in 1..Len(heap) :
               heap[i].command = "join" => heap[i] \in Range(heap')
         /\ C3_Scenario =>
               /\ heap[1].id \notin Ids(heap')
               /\ Len(heap') = 2
               /\ Cardinality(NewNotices(ChanA)) = 1
               /\ \A i \in NewNotices(ChanA) :
                     heap'[i].arguments[2] = NoticeText(10, 1)]_vars

(* C4: with a negative timeout purge() removes nothing and pushes nothing, *)
(* and pop() on a non-empty queue just removes and returns the head.       *)
C4_NegativeTimeoutDisablesPurge ==
    [][(timeout < 0 /\ last'.op \in {"purge", "pop"}) =>
         IF last'.op = "purge"
         THEN heap' = heap
         ELSE heap # <<>> =>
                 /\ last'.ret = <<peek(heap)>>
                 /\ Range(heap') = Range(heap) \ {peek(heap)}
                 /\ Len(heap') = Len(heap) - 1]_vars

(* C5: a tick hands at most one message to the connection, whatever the    *)
(* queue size and the outcome of the dispatch call.                        *)
C5_AtMostOnePerTick == last.op \in Ticks => Len(last.sent) <= 1

C5_Witness ==
    /\ last.op \in Ticks
    /\ Len(last.sent) = 1
    /\ last.reconnect
    /\ Len(heap) >= 1

(* C6: a tick never hands the connection a privmsg, privnotice, mode or    *)
(* topic whose target is a channel that is not in the membership set.      *)
C6_NoSendToUnjoinedChannel ==
    last.op \in Ticks =>
        \A i \in 1..Len(last.sent) :
            (/\ last.sent[i].command \in {"privmsg", "privnotice", "mode", "topic"}
             /\ Len(last.sent[i].arguments) >= 1
             /\ is_channel(last.sent[i].arguments[1]))
                => last.sent[i].arguments[1] \in channels

(* C7: while the head is a privmsg to a channel that is not joined, a tick *)
(* neither dispatches nor removes it; once the channel is joined (the      *)
(* connection up, the message still the head), a tick at which             *)
(* now >= last_tick + get_delay(head) dispatches exactly that message.     *)
C7_GatedUntilJoined ==
    [][(last'.op \in Ticks /\ heap # <<>> /\ ChannelPrivmsg(peek(heap))) =>
         /\ peek(heap).arguments[1] \notin channels =>
               (heap' = heap /\ last'.sent = <<>> /\ last'.tried = <<>>)
         /\ (/\ peek(heap).arguments[1] \in channels
             /\ connected
             /\ now >= last_tick + get_delay(peek(heap)))
               => last'.sent = <<peek(heap)>>]_vars

C7_Witness ==
    /\ last.op \in Ticks
    /\ Len(last.sent) = 1
    /\ ChannelPrivmsg(last.sent[1])
    /\ last.sent[1].id \in hist.gated
    /\ last.sent[1].arguments[1] \in channels

(* The test of one tick: the head m is dispatched only if                  *)
(* now >= last_tick + get_delay(m), and a rate-limited tick dispatches     *)
(* nothing and leaves the queue and last_tick unchanged.                   *)
C8_RateLimited ==
    [][last'.op \in Ticks =>
         /\ last'.sent # <<>> => now >= last_tick + get_delay(last'.sent[1])
         /\ (connected /\ heap # <<>> /\ last_tick + get_delay(peek(heap)) > now)
               => (last'.sent = <<>> /\ heap' = heap /\ last_tick' = last_tick)]_vars

(* C8: a tick dispatches the head m only if now >= last_tick +             *)
(* get_delay(m); a rate-limited tick dispatches nothing and leaves the     *)
(* queue and last_tick unchanged; hence two consecutive dispatches, the    *)
(* second of message m, are at least get_delay(m) apart.                   *)
C8_DispatchesApart ==
    [][last'.op \in Ticks =>
         /\ last'.sent # <<>> => now >= last_tick + get_delay(last'.sent[1])
         /\ (connected /\ heap # <<>> /\ last_tick + get_delay(peek(heap)) > now)
               => (last'.sent = <<>> /\ heap' = heap /\ last_tick' = last_tick)
         /\ (last'.sent # <<>> /\ hist.sent_at >= 0)
               => now >= hist.sent_at + get_delay(last'.sent[1])]_vars

(* C9: get_delay is 0 for every command but privmsg; for a privmsg with a  *)
(* text of n bytes it is min(4, 0.5 + n/35) seconds, that is               *)
(* min(280, 35 + 2n) units of 1/70 s; it does not decrease with n, never   *)
(* exceeds 4 s, and is 4 s at n = 350.                                     *)
C9_Delay ==
    last.op = "get_delay" =>
        LET m == peek(heap)
            n == Len(m.arguments[Len(m.arguments)])
        IN  /\ m.command # "privmsg" => last.delay = 0
            /\ last.delay <= 4 * TimeScale
            /\ (m.command = "privmsg" /\ Len(m.arguments) = 2) =>
                  /\ last.delay = (IF 35 + 2 * n < 280 THEN 35 + 2 * n ELSE 280)
                  /\ n = 350 => last.delay = 4 * TimeScale
                  /\ n > 0 =>
                        get_delay([m EXCEPT !.arguments[2] = Rep("x", n - 1)])
                            <= last.delay

C9_Witness ==
    /\ last.op = "get_delay"
    /\ peek(heap).command = "privmsg"
    /\ Len(peek(heap).arguments) = 2
    /\ Len(peek(heap).arguments[2]) = 350
    /\ last.delay = 4 * TimeScale

(* C10: after any sequence of pushes on an empty queue, peek() is the      *)
(* message with the smallest (timestamp, insertion sequence).              *)
C10_PeekIsEarliest ==
    heap # <<>> =>
        \A i \in 1..Len(heap) :
            \/ peek(heap).timestamp < heap[i].timestamp
            \/ /\ peek(heap).timestamp = heap[i].timestamp
               /\ peek(heap).id <= heap[i].id

C10_Witness ==
    /\ Len(heap) >= 4
    /\ \E i \in 2..Len(heap) : heap[i].timestamp = peek(heap).timestamp
    /\ \E i \in 2..Len(heap) : heap[i].id < peek(heap).id

(* C11: after any interleaving of pushes and pops, messages with equal     *)
(* timestamps leave in the order they were pushed: peek() and pop() never  *)
(* return a message while a message with the same timestamp that was       *)
(* pushed before it is still queued.                                       *)
C11_FifoAmongEqualStamps ==
    [][(last'.op \in {"peek", "pop"} /\ last'.ret # <<>>) =>
          \A i \in 1..Len(heap) :
              heap[i].timestamp = last'.ret[1].timestamp =>
                  last'.ret[1].id <= heap[i].id]_vars

(* C12: on an empty queue peek() and pop() each return the not-present     *)
(* indicator instead of raising and leave the queue empty; pop() also      *)
(* returns not-present when its purge step empties the queue.              *)
C12_EmptyQueueGivesNone ==
    [][(last'.op \in {"peek", "pop"}) =>
          /\ heap = <<>> =>
                /\ last'.exc = "none"
                /\ last'.ret = <<>>
                /\ heap' = <<>>
          /\ (/\ last'.op = "pop"
              /\ heap # <<>>
              /\ Len(last'.removed) = Len(heap)
              /\ heap' = <<>>) =>
                /\ last'.exc = "none"
                /\ last'.ret = <<>>]_vars

(* C13: when the connection method raises not-connected during a tick, the *)
(* tick ends without propagating an error, a reconnect is requested, and   *)
(* afterwards the message is in the queue exactly once with its original   *)
(* timestamp, whatever the queue and the clock.                            *)
C13_NotConnectedRequeuesOnce ==
    (last.op \in Ticks /\ last.raised = "ServerNotConnectedError") =>
        /\ last.exc = "none"
        /\ last.reconnect
        /\ Cardinality({i \in 1..Len(heap) : heap[i].id = last.tried[1].id}) = 1
        /\ \A i \in 1..Len(heap) :
               heap[i].id = last.tried[1].id => heap[i] = last.tried[1]

(* C14: purge is idempotent with respect to notices: a purge() that        *)
(* directly follows a purge(), with no push in between and the clock       *)
(* unchanged, creates no notice; and a message whose text starts with "--" *)
(* that a purge removes adds to no skip count: the count a new notice      *)
(* reports never exceeds the user lines removed for its target.            *)
C14_PurgeIdempotentOnNotices ==
    [][last'.op = "purge" =>
          /\ last'.again => \A T \in AllTargets : NewNotices(T) = {}
          /\ \A T \in AllTargets : \A i \in NewNotices(T) :
                 \E k \in 1..SkipCount(T) :
                     heap'[i].arguments[2] = NoticeText(timeout, k)]_vars

C14_Witness ==
    /\ last.op = "purge"
    /\ last.again
    /\ \E i \in 1..Len(last.removed) :
           /\ last.removed[i].command = "privmsg"
           /\ Len(last.removed[i].arguments) = 2
           /\ StartsWithMarker(last.removed[i].arguments[2])

(* C15: dispatching a message whose command is not a supported verb calls  *)
(* no connection method, raises nothing, and reports failure to the        *)
(* caller: what process_message returns differs from what it returns       *)
(* after a successful send.                                                *)
C15_UnknownCommandReportsFailure ==
    (/\ last.op \in Ticks
     /\ last.tried # <<>>
     /\ last.tried[1].command \notin Supported) =>
        /\ last.sent = <<>>
        /\ last.raised = "none"
        /\ last.returned #
               <<process_message(Message(0, "join", <<ChanA>>, 0), "ok").returned>>

(* C16: on every tick on which the connection reports not-connected, be    *)
(* it the periodic on_tick or a direct flood_control, a reconnect is       *)
(* requested, nothing is dispatched and the queue is left untouched.       *)
C16_NotConnectedTickReconnects ==
    [][(last'.op \in Ticks /\ ~connected) =>
          /\ last'.reconnect
          /\ last'.tried = <<>>
          /\ last'.sent = <<>>
          /\ heap' = heap]_vars

(* C17: head-of-line order.  Whenever a tick hands a message to the        *)
(* connection, no message with a strictly smaller timestamp is in the      *)
(* queue at that moment; and when the head is gated or rate-limited, the   *)
(* tick dispatches nothing and leaves the queue as it was.                 *)
C17_HeadOfLine ==
    [][last'.op \in Ticks =>
          /\ \A k \in 1..Len(last'.sent) : \A i \in 1..Len(heap) :
                 heap[i].timestamp >= last'.sent[k].timestamp
          /\ (/\ connected
              /\ heap # <<>>
              /\ \/ Gated(peek(heap), channels)
                 \/ last_tick + get_delay(peek(heap)) > now) =>
                /\ last'.tried = <<>>
                /\ last'.sent = <<>>
                /\ heap' = heap]_vars

C17_Witness ==
    /\ last.op \in Ticks
    /\ last.sent # <<>>
    /\ \E i \in 1..Len(heap) :
           /\ heap[i].id < last.sent[1].id
           /\ heap[i].timestamp > last.sent[1].timestamp

(* C18: each queued message has one fate.  No message that a connection    *)
(* method took is also counted in the skip total of a notice, in the same  *)
(* tick or a later one, and no message is counted more than once.          *)
C18_OneFate ==
    [][last'.op \in Ticks =>
          \A i \in CountedLines(last'.removed, nextId' > nextId) :
              /\ last'.removed[i].id \notin hist.sent_ok
              /\ ~ /\ last'.raised = "none"
                   /\ \E k \in 1..Len(last'.sent) :
                          last'.sent[k].id = last'.removed[i].id
              /\ last'.removed[i].id \notin hist.counted
              /\ \A j \in CountedLines(last'.removed, nextId' > nextId) :
                     j # i => last'.removed[j].id # last'.removed[i].id]_vars

C18_Witness ==
    /\ last.op \in Ticks
    /\ last.raised = "none"
    /\ last.sent # <<>>
    /\ last.sent[1].command \in {"privmsg", "privnotice"}
    /\ \E i \in 1..Len(last.removed) : last.removed[i] = last.sent[1]

(* C19: progress.  With the connection up, every dispatch succeeding,      *)
(* every targeted channel joined and no new push, repeated ticks empty     *)
(* the queue as time advances, whatever it holds (a privmsg whose          *)
(* arguments are not two included): from every such state with a           *)
(* non-empty queue, a tick now or once the longest delay has passed        *)
(* changes the queue.  (A tick that leaves the queue as it was leaves      *)
(* last_tick as it was too, so every later tick does the same.)            *)
C19_TicksMakeProgress ==
    (/\ connected
     /\ heap # <<>>
     /\ \A i \in 1..Len(heap) :
            (heap[i].arguments # <<>> /\ is_channel(heap[i].arguments[1]))
                => heap[i].arguments[1] \in channels) =>
        \E d \in {0, 4 * TimeScale} :
            flood_control(heap, last_tick, now + d, timeout, channels, nextId,
                          connected, "ok").heap # heap

(* C20: last_tick (the last send time) changes only in a tick in which a   *)
(* message was handed to the connection without an error; a tick whose     *)
(* connection method raised, not-connected or other, and whose message     *)
(* was pushed back leaves last_tick as it was.                             *)
C20_LastTickOnlyOnSuccess ==
    [][/\ last_tick' # last_tick =>
             /\ last'.op \in Ticks
             /\ last'.sent # <<>>
             /\ last'.raised = "none"
       /\ (last'.op \in Ticks /\ last'.raised # "none" /\ last'.requeued) =>
             last_tick' = last_tick]_vars

=============================================================================
